---- MODULE Spec2Model ----
(***************************************************************************)
(* Model of src/pipeline.py: the daily risk-index pipeline.                *)
(*                                                                         *)
(* The script is one straight-line run; its only state that survives a run *)
(* is the on-disk cache (two event tables, the run metadata).  Spec models *)
(* a sequence of runs against a remote event provider whose state changes  *)
(* between runs.  The pure stages of a run (rates, spillover, the final    *)
(* join, the scores) are modelled by operators and checked under their own *)
(* specifications, whose Init draws the inputs.                            *)
(***************************************************************************)
EXTENDS Integers, Sequences, FiniteSets, TLC

\* ------------------------------------------------------------------------
\* Bounds of the model
\* ------------------------------------------------------------------------
MaxRuns == 3
MaxChanges == 1
\* rows of the event tables drawn as the input of the metrics stage
MaxEvents == 2
\* records of a provider answer drawn as the input of the de-duplication check
MaxFetchLen == 2

\* ------------------------------------------------------------------------
\* Generic helpers
\* ------------------------------------------------------------------------
Range(s) == {s[i] : i \in DOMAIN s}

\* ------------------------------------------------------------------------
\* The Administrative Registry and the static population table
\* ------------------------------------------------------------------------
\* ADM2: the registry rows, in file order (adm2_code of each).
ADM2 == <<"U1", "U2", "U3">>
Units == Range(ADM2)

\* The population table of the runs: pop_wra of each unit.
PopScenario == [u \in Units |-> CASE u = "U1" -> 1000 [] u = "U2" -> 2000 [] OTHER -> 0]

\* ------------------------------------------------------------------------
\* Event records the provider can serve
\* ------------------------------------------------------------------------
VIOLENT_TYPES == {"Violence against civilians", "Battles", "Explosions/Remote violence"}

\* One record per row of the provider's answer.  polys is the set of unit
\* polygons the point intersects (boundary inclusive); coords tells whether
\* latitude and longitude are numeric.
Catalog == <<
    [event_id_cnty |-> 1, event_date |-> 95, country |-> "Mexico",
     event_type |-> "Battles", coords |-> TRUE, polys |-> {"U1"}],
    [event_id_cnty |-> 2, event_date |-> 85, country |-> "Mexico",
     event_type |-> "Violence against civilians", coords |-> TRUE, polys |-> {"U2"}],
    [event_id_cnty |-> 3, event_date |-> 65, country |-> "Mexico",
     event_type |-> "Battles", coords |-> TRUE, polys |-> {"U1"}],
    [event_id_cnty |-> 4, event_date |-> 95, country |-> "Mexico",
     event_type |-> "Explosions/Remote violence", coords |-> TRUE, polys |-> {"U1", "U2"}],
    [event_id_cnty |-> 5, event_date |-> 95, country |-> "Mexico",
     event_type |-> "Battles", coords |-> FALSE, polys |-> {}],
    [event_id_cnty |-> 6, event_date |-> 95, country |-> "Guatemala",
     event_type |-> "Battles", coords |-> TRUE, polys |-> {}],
    [event_id_cnty |-> 7, event_date |-> 95, country |-> "Mexico",
     event_type |-> "Protests", coords |-> TRUE, polys |-> {"U3"}] >>

\* What the provider may answer to the 90-day query and to the prior-window
\* query (sequences of Catalog records, repeated ids allowed).
Fetch90Results == { <<>>,
                    <<Catalog[1], Catalog[2], Catalog[3]>>,
                    <<Catalog[4], Catalog[5], Catalog[6], Catalog[7], Catalog[4]>> }
FetchPrevResults == { <<>>, <<Catalog[3]>> }

\* The recency cutoffs the provider may declare (day numbers).
Cutoffs == {100, 120}


\* ------------------------------------------------------------------------
\* Exact arithmetic on the pipeline's floating-point columns: a number is a
\* fraction <<n, d>> with d > 0 in lowest terms; NaN is the missing number.
\* ------------------------------------------------------------------------
NaN == <<0, 0>>

\* The missing value of a text column (a unit code that matched no polygon).
NA == "<NA>"

Abs(x) == IF x < 0 THEN -x ELSE x

RECURSIVE GCD(_, _)
GCD(a, b) == IF b = 0 THEN a ELSE GCD(b, a % b)

RNorm(q) ==
    LET n == IF q[2] < 0 THEN -q[1] ELSE q[1]
        d == Abs(q[2])
        g == GCD(Abs(n), d)
    IN <<n \div g, d \div g>>

RInt(k) == <<k, 1>>
RAdd(p, q) == RNorm(<<p[1] * q[2] + q[1] * p[2], p[2] * q[2]>>)
RSub(p, q) == RNorm(<<p[1] * q[2] - q[1] * p[2], p[2] * q[2]>>)
RMul(p, q) == RNorm(<<p[1] * q[1], p[2] * q[2]>>)
\* p / q for q # 0
RDiv(p, q) == RNorm(<<p[1] * q[2], p[2] * q[1]>>)
RLess(p, q) == p[1] * q[2] < q[1] * p[2]
RLeq(p, q) == p[1] * q[2] <= q[1] * p[2]

\* ------------------------------------------------------------------------
\* Program constants
\* ------------------------------------------------------------------------
\* anchors_from_end: FROM_30 = end_date - 30 days.
Days30 == 30
\* the rate scale 1e5 of v30, v3m, v30_prev.
RateScale == 100000

FROM_30(end_date) == end_date - Days30

\* ------------------------------------------------------------------------
\* Event ingestion (the refresh branch) and the cached branch
\* ------------------------------------------------------------------------
RECURSIVE drop_duplicates(_)
\* DataFrame.drop_duplicates(subset=["event_id_cnty"]): the first row of each
\* id is kept, in order.
drop_duplicates(df) ==
    IF df = <<>> THEN <<>>
    ELSE LET n == Len(df)
             front == drop_duplicates(SubSeq(df, 1, n - 1))
         IN IF \E i \in 1..(n - 1) : df[i].event_id_cnty = df[n].event_id_cnty
            THEN front
            ELSE Append(front, df[n])

\* A cleaning step that filters the country and keeps repeated ids.
clean_keeping_copies(df) ==
    IF df = <<>> THEN df
    ELSE SelectSeq(df, LAMBDA r : r.country = "Mexico")

\* _clean: keep the target country, then de-duplicate by event id.
clean(df) ==
    IF df = <<>> THEN df
    ELSE drop_duplicates(SelectSeq(df, LAMBDA r : r.country = "Mexico"))

\* acled_90v / acled_prevv: the violent categories only.
violent(df) == SelectSeq(df, LAMBDA r : r.event_type \in VIOLENT_TYPES)

\* to_points: rows without numeric coordinates are dropped.
to_points(df) == SelectSeq(df, LAMBDA r : r.coords)

\* gpd.sjoin(..., how="left", predicate="intersects") for one point: one row
\* per polygon hit, in registry order; a row with a missing code if none.
sjoin_rows(r) ==
    LET hits == SelectSeq(ADM2, LAMBDA u : u \in r.polys)
    IN IF hits = <<>>
       THEN << [event_id_cnty |-> r.event_id_cnty, event_date |-> r.event_date,
                adm2_code |-> NA] >>
       ELSE [i \in 1..Len(hits) |->
                [event_id_cnty |-> r.event_id_cnty, event_date |-> r.event_date,
                 adm2_code |-> hits[i]]]

RECURSIVE sjoin(_)
sjoin(points) ==
    IF points = <<>> THEN <<>>
    ELSE sjoin_rows(Head(points)) \o sjoin(Tail(points))

\* Series.astype(str) on the unit code: the missing value becomes "nan".
astype_str(code) == IF code = NA THEN "nan" ELSE code

\* The per-event output table of one window (lines 574-584): joined rows
\* stamped with data_as_of, the code cast to str.
events_table(fetched, as_of) ==
    LET j == sjoin(to_points(violent(clean(fetched))))
    IN [i \in 1..Len(j) |->
           [event_id_cnty |-> j[i].event_id_cnty, event_date |-> j[i].event_date,
            adm2_code |-> astype_str(j[i].adm2_code), data_as_of |-> as_of]]

\* pd.read_csv of a unit-code cell: the text "nan" is read as missing.
read_cell(text) == IF text = "nan" THEN NA ELSE text

\* The cached branch (lines 607-614): read the table if the file exists,
\* else an empty frame; the code column is cast to str again.
load_cached(file) ==
    IF ~file.exists THEN <<>>
    ELSE [i \in 1..Len(file.rows) |->
             [file.rows[i] EXCEPT !.adm2_code = astype_str(read_cell(@))]]

\* ------------------------------------------------------------------------
\* Counts and rates per unit
\* ------------------------------------------------------------------------
\* groupby(adm2_code, adm2_name).count() left-merged on the registry: the
\* number of rows of df assigned to unit u (0 when the unit has no group).
rows_of(df, u) == Cardinality({i \in DOMAIN df : df[i].adm2_code = u})

\* events30: rows dated after FROM_30 of the run's cutoff.
events30_rows(df, end_date) ==
    SelectSeq(df, LAMBDA r : r.event_date > FROM_30(end_date))

\* A rate whose zero-population guard divides by one instead.
rate_dividing_by_one(events, den) ==
    RNorm(<<RateScale * events, IF den > 0 THEN den ELSE 1>>)

\* np.where(den > 0, 1e5 * events / den, 0.0)
rate(events, den) ==
    IF den > 0 THEN RNorm(<<RateScale * events, den>>) ELSE RInt(0)

\* acled_metrics of one run (lines 659-709): counts and rates of every
\* registry unit, pop being pop_wra per unit after the merge and fillna(0).
metrics_of(ev_out, ev_prev_out, end_date, pop) ==
    [u \in Units |->
        LET e30 == rows_of(events30_rows(ev_out, end_date), u)
            e90 == rows_of(ev_out, u)
            eprev == rows_of(ev_prev_out, u)
        IN [events30 |-> e30, events_90v |-> e90, events_prevv |-> eprev,
            v30 |-> rate(e30, pop[u]),
            v3m |-> rate(e90, pop[u]),
            v30_prev |-> rate(eprev, pop[u]),
            dlt_v30_raw |-> RSub(rate(e30, pop[u]), rate(eprev, pop[u]))]]

\* ------------------------------------------------------------------------
\* Spillover: Queen contiguity, row-standardized
\* ------------------------------------------------------------------------
RECURSIVE RSumSeq(_)
RSumSeq(xs) == IF xs = <<>> THEN RInt(0) ELSE RAdd(Head(xs), RSumSeq(Tail(xs)))

\* Binary weights: the row is not standardized.
row_weight_binary(nb, u, v) == IF v \in nb[u] THEN RInt(1) ELSE RInt(0)

\* wq.transform = "R": the weight of v in the row of u is 1/(number of
\* neighbors of u) for a neighbor and 0 otherwise; the row of an island is 0.
row_weight(nb, u, v) ==
    IF v \in nb[u] THEN <<1, Cardinality(nb[u])>> ELSE RInt(0)

\* S = wq.sparse.dot(v30): the row of u times the rate vector, in registry order.
spillover_of(nb, v30) ==
    [u \in Units |->
        RSumSeq([i \in 1..Len(ADM2) |-> RMul(row_weight(nb, u, ADM2[i]), v30[ADM2[i]])])]

\* ------------------------------------------------------------------------
\* State of a sequence of runs
\* ------------------------------------------------------------------------
VARIABLES
    provider,         \* the remote provider: its cutoff and what each window query returns
    ACLED_REFRESH,    \* the refresh toggle of the current run (environment flag)
    EVENTS_CSV,       \* cached 90-day event table: [exists, rows]
    EVENTS_PREV_CSV,  \* cached prior-window event table: [exists, rows]
    META_JSON,        \* run metadata file: [exists, end_allowed, last_run]
    pc,               \* position of the current run in the script
    end_allowed,      \* recency cutoff resolved by this run
    can_use_cache,    \* local of the same name
    do_refresh_acled, \* local of the same name
    fetch,            \* per window: "none" | "ok" | "raised" (acled_fetch of this run)
    acled_90,         \* what acled_fetch returned for the 90-day window
    acled_prev,       \* what acled_fetch returned for the prior window
    events_out,       \* the run's 90-day per-event table
    events_prev_out,  \* the run's prior-window per-event table
    acled_metrics,    \* the run's per-unit counts and rates
    pop,              \* static population table: pop_wra per unit
    wq,               \* contiguity of the unit polygons: neighbors per unit
    spill,            \* the run's spillover per unit
    runs,             \* runs started so far (also the clock of last_run)
    changes,          \* provider changes so far
    atStart,          \* the cache as the current run found it
    lastRun,          \* the previous completed run: provider state, output
    \* -- the same provider answer fed once and fed with one record repeated
    d_pc,             \* "off" | "start" | "once" | "twice"
    fed,              \* the provider answer per window
    copy,             \* the repeated record: its window, its index, where it is inserted
    metrics_once,     \* acled_metrics of the answer as it is
    metrics_twice,    \* acled_metrics of the answer with the record repeated
    \* -- the final join on its own
    j_pc,             \* "off" | "base" | "cast" | "final" | "done" | "failed"
    j_runs,           \* runs of the join stage so far
    tables,           \* the static tables and the forecast the provider serves
    CAST_STATE_CSV,   \* cached forecast table: [exists, rows]
    adm2_base,        \* registry joined with population and facilities
    cast,             \* forecast table of the run: adm1_join, cast_state
    use_cast_cache,   \* the run reuses the cached forecast table
    cast_bound,       \* the name cast has been assigned in the run
    final,            \* the final per-unit table
    \* -- the scores of one observed row of the final table
    s_pc,             \* "off" | the next column to normalize | "compose" | "done"
    sig,              \* the normalized signals of the observed row
    prs_row,          \* what compute_prs_row returned for the row
    score,            \* DCR, PRS, DCR100, PRS100, priority100 of the row
    \* -- one paginated fetch on its own
    f_pc,             \* "off" | "paging" | "concat" | "returned" | "raised"
    fetcher,          \* "acled_fetch" | "cast_fetch_mexico"
    served,           \* what the provider answers for each page
    page,             \* the page the loop is at
    frames,           \* the pages appended so far
    requests,         \* the pages requested so far, in order
    returned,         \* the return value: [set, rows]
    \* -- one call of winsor01_series on its own
    w_pc,             \* "off" | "call" | "done"
    w_in,             \* the argument
    w_out             \* the result

vars == <<provider, ACLED_REFRESH, EVENTS_CSV, EVENTS_PREV_CSV, META_JSON, pc,
          end_allowed, can_use_cache, do_refresh_acled, fetch, acled_90,
          acled_prev, events_out, events_prev_out, acled_metrics, pop, wq, spill,
          runs, changes, atStart, lastRun,
          d_pc, fed, copy, metrics_once, metrics_twice,
          j_pc, j_runs, tables, CAST_STATE_CSV, adm2_base, cast, use_cast_cache,
          cast_bound, final,
          s_pc, sig, prs_row, score,
          f_pc, fetcher, served, page, frames, requests, returned,
          w_pc, w_in, w_out>>

cache == <<EVENTS_CSV, EVENTS_PREV_CSV, META_JSON>>
dedupVars == <<d_pc, fed, copy, metrics_once, metrics_twice>>
joinVars == <<j_pc, j_runs, tables, CAST_STATE_CSV, adm2_base, cast, use_cast_cache,
              cast_bound, final>>
scoreVars == <<s_pc, sig, prs_row, score>>
fetchVars == <<f_pc, fetcher, served, page, frames, requests, returned>>
winsorVars == <<w_pc, w_in, w_out>>
runVars == <<provider, ACLED_REFRESH, EVENTS_CSV, EVENTS_PREV_CSV, META_JSON, pc,
             end_allowed, can_use_cache, do_refresh_acled, fetch, acled_90,
             acled_prev, events_out, events_prev_out, acled_metrics, pop, wq, spill,
             runs, changes, atStart, lastRun>>
\* what no step of a run touches
static == <<pop, wq, dedupVars, joinVars, scoreVars, fetchVars, winsorVars>>
history == <<runs, changes, atStart, lastRun, static>>
locals == <<end_allowed, can_use_cache, do_refresh_acled, fetch, acled_90,
            acled_prev, events_out, events_prev_out, acled_metrics, spill>>

Windows == {"w90", "prev"}
ProviderStates ==
    [cutoff : Cutoffs, w90 : Fetch90Results, prev : FetchPrevResults]

NoFile == [exists |-> FALSE, rows |-> <<>>]
NoMeta == [exists |-> FALSE, end_allowed |-> 0, last_run |-> 0]
NoMetrics == [u \in Units |->
                 [events30 |-> 0, events_90v |-> 0, events_prevv |-> 0,
                  v30 |-> RInt(0), v3m |-> RInt(0), v30_prev |-> RInt(0),
                  dlt_v30_raw |-> RInt(0)]]
NoSpill == [u \in Units |-> RInt(0)]

\* The contiguity of the runs: the chain U1 - U2 - U3.
ChainScenario == [u \in Units |->
                    CASE u = "U1" -> {"U2"} [] u = "U2" -> {"U1", "U3"} [] OTHER -> {"U2"}]
NoRun == [valid |-> FALSE, provider |-> [cutoff |-> 0, w90 |-> <<>>, prev |-> <<>>],
          refresh_enabled |-> FALSE, metrics |-> NoMetrics]

\* The de-duplication check is not running.
DedupOff ==
    /\ d_pc = "off"
    /\ fed = [w \in Windows |-> <<>>]
    /\ copy = [window |-> "w90", index |-> 0, at |-> 0]
    /\ metrics_once = NoMetrics
    /\ metrics_twice = NoMetrics

NoTables == [pop |-> <<>>, fac |-> <<>>, mvi |-> <<>>, events |-> <<>>, forecast |-> <<>>]
NoSignals == [V30 |-> RInt(0), V3m |-> RInt(0), dV30 |-> RInt(0), S |-> RInt(0),
              CAST |-> RInt(0), A |-> RInt(0), MVI |-> RInt(0), in_forecast |-> FALSE]
NoScore == [DCR |-> RInt(0), PRS |-> RInt(0), DCR100 |-> RInt(0), PRS100 |-> RInt(0),
            priority100 |-> RInt(0)]

\* The final join is not running.
JoinOff ==
    /\ j_pc = "off"
    /\ j_runs = 0
    /\ tables = NoTables
    /\ CAST_STATE_CSV = NoFile
    /\ adm2_base = <<>>
    /\ cast = <<>>
    /\ use_cast_cache = FALSE
    /\ cast_bound = FALSE
    /\ final = <<>>

\* The scores are not being computed.
ScoreOff ==
    /\ s_pc = "off"
    /\ sig = NoSignals
    /\ prs_row = RInt(0)
    /\ score = NoScore

NoReturn == [set |-> FALSE, rows |-> <<>>]

\* No fetch is being paged.
FetchOff ==
    /\ f_pc = "off"
    /\ fetcher = "acled_fetch"
    /\ served = <<>>
    /\ page = 0
    /\ frames = <<>>
    /\ requests = <<>>
    /\ returned = NoReturn

\* winsor01_series is not being called.
WinsorOff ==
    /\ w_pc = "off"
    /\ w_in = <<>>
    /\ w_out = <<>>

\* No run has started: no cache on disk, the locals unset.
RunOff ==
    /\ ACLED_REFRESH = TRUE
    /\ EVENTS_CSV = NoFile
    /\ EVENTS_PREV_CSV = NoFile
    /\ META_JSON = NoMeta
    /\ pc = "idle"
    /\ end_allowed = 0
    /\ can_use_cache = FALSE
    /\ do_refresh_acled = FALSE
    /\ fetch = [w \in Windows |-> "none"]
    /\ acled_90 = <<>>
    /\ acled_prev = <<>>
    /\ events_out = <<>>
    /\ events_prev_out = <<>>
    /\ acled_metrics = NoMetrics
    /\ spill = NoSpill
    /\ pop = PopScenario
    /\ wq = ChainScenario
    /\ runs = 0
    /\ changes = 0
    /\ atStart = [cached |-> FALSE, meta |-> NoMeta]
    /\ lastRun = NoRun

\* The state before the first run: no cache on disk, any provider state.
Init ==
    /\ provider \in ProviderStates
    /\ RunOff
    /\ DedupOff
    /\ JoinOff
    /\ ScoreOff
    /\ FetchOff
    /\ WinsorOff

\* The provider moves to another state between two runs.
ProviderChange ==
    /\ pc = "idle"
    /\ changes < MaxChanges
    /\ \E p \in ProviderStates : p # provider /\ provider' = p
    /\ changes' = changes + 1
    /\ UNCHANGED <<ACLED_REFRESH, cache, pc, locals, runs, atStart, lastRun, static>>

\* The script starts: the environment sets the refresh toggle (line 42).
StartRun ==
    /\ pc = "idle"
    /\ runs < MaxRuns
    /\ runs' = runs + 1
    /\ ACLED_REFRESH' \in BOOLEAN
    /\ atStart' = [cached |-> EVENTS_CSV.exists /\ EVENTS_PREV_CSV.exists,
                   meta |-> META_JSON]
    /\ pc' = "token"
    /\ end_allowed' = 0
    /\ can_use_cache' = FALSE
    /\ do_refresh_acled' = FALSE
    /\ fetch' = [w \in Windows |-> "none"]
    /\ acled_90' = <<>>
    /\ acled_prev' = <<>>
    /\ events_out' = <<>>
    /\ events_prev_out' = <<>>
    /\ acled_metrics' = NoMetrics
    /\ spill' = NoSpill
    /\ UNCHANGED <<provider, cache, changes, lastRun, static>>

\* get_acled_token (line 529): raise_for_status ends the run on a non-2xx.
GetToken ==
    /\ pc = "token"
    /\ \E ok \in BOOLEAN : pc' = IF ok THEN "cap" ELSE "failed"
    /\ UNCHANGED <<provider, ACLED_REFRESH, cache, locals, history>>

\* resolve_recency_cap (line 530): one probe; the provider's cutoff.
ResolveCap ==
    /\ pc = "cap"
    /\ \E ok \in BOOLEAN :
          IF ok THEN /\ end_allowed' = provider.cutoff
                     /\ pc' = "decide"
          ELSE /\ pc' = "failed"
               /\ UNCHANGED end_allowed
    /\ UNCHANGED <<provider, ACLED_REFRESH, cache, can_use_cache, do_refresh_acled,
                   fetch, acled_90, acled_prev, events_out, events_prev_out,
                   acled_metrics, spill, history>>

\* A metadata file that json.load cannot parse: _read_meta answers {} as for
\* an absent file (lines 223-230).
Truncated == [exists |-> TRUE, end_allowed |-> 0, last_run |-> 0]

\* _read_meta and meta.get("end_allowed"): the persisted cutoff, if any.
last_end_allowed(meta) ==
    IF meta.exists /\ meta # Truncated THEN {meta.end_allowed} ELSE {}

\* can_use_cache (lines 538-541).
CanUseCache(csv, csv_prev, meta, cutoff) ==
    (csv.exists /\ csv_prev.exists) /\ last_end_allowed(meta) = {cutoff}

\* A refresh decision that ignores the toggle.
DoRefreshIgnoringToggle(refresh, usable) == ~usable

\* do_refresh_acled (line 542).
DoRefresh(refresh, usable) == refresh /\ ~usable

\* Lines 536-544: the refresh decision.
Decide ==
    /\ pc = "decide"
    /\ LET usable == CanUseCache(EVENTS_CSV, EVENTS_PREV_CSV, META_JSON, end_allowed)
       IN /\ can_use_cache' = usable
          /\ do_refresh_acled' = DoRefresh(ACLED_REFRESH, usable)
          /\ pc' = IF DoRefresh(ACLED_REFRESH, usable) THEN "probe" ELSE "load"
    /\ UNCHANGED <<provider, ACLED_REFRESH, cache, end_allowed, fetch, acled_90,
                   acled_prev, events_out, events_prev_out, acled_metrics, spill, history>>

\* choose_live_params for both windows (lines 548-549): one-row probes, any
\* of which may raise.
ChooseLive ==
    /\ pc = "probe"
    /\ \E ok \in BOOLEAN : pc' = IF ok THEN "fetch90" ELSE "failed"
    /\ UNCHANGED <<provider, ACLED_REFRESH, cache, locals, history>>

\* acled_fetch of the 90-day window (line 551).
Fetch90 ==
    /\ pc = "fetch90"
    /\ \E ok \in BOOLEAN :
          IF ok THEN /\ fetch' = [fetch EXCEPT !["w90"] = "ok"]
                     /\ acled_90' = provider.w90
                     /\ pc' = "fetchPrev"
          ELSE /\ fetch' = [fetch EXCEPT !["w90"] = "raised"]
               /\ pc' = "failed"
               /\ UNCHANGED acled_90
    /\ UNCHANGED <<provider, ACLED_REFRESH, cache, end_allowed, can_use_cache,
                   do_refresh_acled, acled_prev, events_out, events_prev_out,
                   acled_metrics, spill, history>>

\* acled_fetch of the prior window (line 552).
FetchPrev ==
    /\ pc = "fetchPrev"
    /\ \E ok \in BOOLEAN :
          IF ok THEN /\ fetch' = [fetch EXCEPT !["prev"] = "ok"]
                     /\ acled_prev' = provider.prev
                     /\ pc' = "store"
          ELSE /\ fetch' = [fetch EXCEPT !["prev"] = "raised"]
               /\ pc' = "failed"
               /\ UNCHANGED acled_prev
    /\ UNCHANGED <<provider, ACLED_REFRESH, cache, end_allowed, can_use_cache,
                   do_refresh_acled, acled_90, events_out, events_prev_out,
                   acled_metrics, spill, history>>

\* to_csv of a per-event table: written only when the table has rows.
write_events(file, table) ==
    IF table # <<>> THEN [exists |-> TRUE, rows |-> table] ELSE file

\* _write_meta after meta.update (lines 598-602): best effort, an error of
\* the write is swallowed.  open(path, "w") empties the file before json.dump
\* writes, so an error of open leaves the file as it was and an error of the
\* dump or of the close (a full disk) leaves it cut short.
WriteOutcomes == {"written", "unchanged", "truncated"}
write_meta(file, cutoff, now, outcome) ==
    CASE outcome = "written" ->
            [exists |-> TRUE, end_allowed |-> cutoff, last_run |-> now]
      [] outcome = "unchanged" -> file
      [] OTHER -> Truncated

\* Lines 554-602: clean, filter, join, write the tables, update the metadata.
Store ==
    /\ pc = "store"
    /\ LET out == events_table(acled_90, end_allowed)
           prev_out == events_table(acled_prev, end_allowed)
       IN /\ events_out' = out
          /\ events_prev_out' = prev_out
          /\ EVENTS_CSV' = write_events(EVENTS_CSV, out)
          /\ EVENTS_PREV_CSV' = write_events(EVENTS_PREV_CSV, prev_out)
    /\ \E outcome \in WriteOutcomes :
          META_JSON' = write_meta(META_JSON, end_allowed, runs, outcome)
    /\ pc' = "counts"
    /\ UNCHANGED <<provider, ACLED_REFRESH, end_allowed, can_use_cache,
                   do_refresh_acled, fetch, acled_90, acled_prev, acled_metrics, spill,
                   history>>

\* A cached branch that also stamps the metadata (the update moved out of
\* the refresh branch).
LoadStampingMeta ==
    /\ pc = "load"
    /\ events_out' = load_cached(EVENTS_CSV)
    /\ events_prev_out' = load_cached(EVENTS_PREV_CSV)
    /\ META_JSON' = write_meta(META_JSON, end_allowed, runs, "written")
    /\ pc' = "counts"
    /\ UNCHANGED <<provider, ACLED_REFRESH, EVENTS_CSV, EVENTS_PREV_CSV, end_allowed,
                   can_use_cache, do_refresh_acled, fetch, acled_90, acled_prev,
                   acled_metrics, spill, history>>

\* A cached branch that reads the prior-window table in place of an absent
\* 90-day table.
LoadFallingBack ==
    /\ pc = "load"
    /\ events_out' = load_cached(IF EVENTS_CSV.exists THEN EVENTS_CSV ELSE EVENTS_PREV_CSV)
    /\ events_prev_out' = load_cached(EVENTS_PREV_CSV)
    /\ pc' = "counts"
    /\ UNCHANGED <<provider, ACLED_REFRESH, cache, end_allowed, can_use_cache,
                   do_refresh_acled, fetch, acled_90, acled_prev, acled_metrics, spill,
                   history>>

\* Lines 604-614: the refresh is skipped, the cached tables are used.
Load ==
    /\ pc = "load"
    /\ events_out' = load_cached(EVENTS_CSV)
    /\ events_prev_out' = load_cached(EVENTS_PREV_CSV)
    /\ pc' = "counts"
    /\ UNCHANGED <<provider, ACLED_REFRESH, cache, end_allowed, can_use_cache,
                   do_refresh_acled, fetch, acled_90, acled_prev, acled_metrics, spill,
                   history>>

\* Lines 616-725: counts per unit and the rates.
Counts ==
    /\ pc = "counts"
    /\ acled_metrics' = metrics_of(events_out, events_prev_out, end_allowed, pop)
    /\ pc' = "spill"
    /\ UNCHANGED <<provider, ACLED_REFRESH, cache, end_allowed, can_use_cache,
                   do_refresh_acled, fetch, acled_90, acled_prev, events_out,
                   events_prev_out, spill, history>>

\* Lines 729-736: the neighbor average of the 30-day rate.
Spillover ==
    /\ pc = "spill"
    /\ spill' = spillover_of(wq, [u \in Units |-> acled_metrics[u].v30])
    /\ pc' = "done"
    /\ UNCHANGED <<provider, ACLED_REFRESH, cache, end_allowed, can_use_cache,
                   do_refresh_acled, fetch, acled_90, acled_prev, events_out,
                   events_prev_out, acled_metrics, history>>

\* The process ends, with its output written or with the exception.
EndRun ==
    /\ pc \in {"done", "failed"}
    /\ pc' = "idle"
    /\ lastRun' = IF pc = "done"
                  THEN [valid |-> TRUE, provider |-> provider,
                        refresh_enabled |-> ACLED_REFRESH, metrics |-> acled_metrics]
                  ELSE NoRun
    /\ UNCHANGED <<provider, ACLED_REFRESH, cache, locals, runs, changes, atStart,
                   static>>

Next ==
    \/ ProviderChange
    \/ StartRun
    \/ GetToken
    \/ ResolveCap
    \/ Decide
    \/ ChooseLive
    \/ Fetch90
    \/ FetchPrev
    \/ Store
    \/ Load
    \/ Counts
    \/ Spillover
    \/ EndRun

Spec == Init /\ [][Next]_vars


\* ------------------------------------------------------------------------
\* The refresh decision and the run metadata
\* ------------------------------------------------------------------------
\* The condition of the refresh, on the cache as the run found it.
RefreshWanted ==
    ACLED_REFRESH /\ ~(atStart.cached /\ atStart.meta.exists
                       /\ atStart.meta.end_allowed = end_allowed)

\* C1: a window fetch is invoked only in a run whose refresh is enabled and
\* whose cache is not usable (both tables present and the persisted cutoff
\* equal to the resolved one); and a run that reaches its counts has invoked
\* the fetch of both windows exactly when that condition holds.  A run that
\* an exception ends before the fetch invokes none.
C1_FetchIffRefreshWanted ==
    /\ (\E w \in Windows : fetch[w] # "none") => RefreshWanted
    /\ pc \in {"counts", "spill", "done"} =>
          ((\A w \in Windows : fetch[w] # "none") <=> RefreshWanted)

\* Cached tables present, the persisted cutoff equal to the resolved one,
\* refresh disabled: the run is done and has fetched nothing.
C1_Witness ==
    /\ pc = "done"
    /\ ~ACLED_REFRESH
    /\ atStart.cached
    /\ atStart.meta.exists /\ atStart.meta.end_allowed = end_allowed
    /\ \A w \in Windows : fetch[w] = "none"

\* C2: the metadata file differs from what the run found only if the run
\* took the refresh branch and both window fetches have returned; so a run
\* that skips the refresh, or that an authentication, probe or fetch failure
\* ends, leaves the metadata as it was.
C2_MetaOnlyAfterRefresh ==
    /\ META_JSON # atStart.meta =>
          /\ do_refresh_acled
          /\ \A w \in Windows : fetch[w] = "ok"
    /\ pc = "failed" => META_JSON = atStart.meta

\* A refreshing run has written the metadata of its cutoff.
C2_Witness ==
    /\ pc = "counts"
    /\ do_refresh_acled
    /\ META_JSON.exists /\ META_JSON.last_run = runs
    /\ META_JSON # atStart.meta

\* C3: two consecutive completed runs against the same provider state, both
\* with the refresh enabled, produce the same per-unit counts and rates.
C3_Reproducible ==
    (/\ pc = "done"
     /\ lastRun.valid
     /\ lastRun.provider = provider
     /\ lastRun.refresh_enabled /\ ACLED_REFRESH)
    => acled_metrics = lastRun.metrics


\* ------------------------------------------------------------------------
\* The metrics stage on its own: counts, rates, spillover for any population
\* table, any contiguity and any small pair of event tables
\* ------------------------------------------------------------------------
PopValues == {-1, 0, 1000, 2000}

\* Symmetric, irreflexive neighbor relations over the registry.
Contiguities ==
    {nb \in [Units -> SUBSET Units] :
        \A u \in Units : u \notin nb[u] /\ \A v \in nb[u] : u \in nb[v]}

\* The kinds of row of the two per-event tables: a unit code or "nan", and a
\* date inside or outside the 30-day window (prior-window rows are dated in
\* the prior window).
UnitCodes == ADM2 \o <<"nan">>
DatesIn90 == <<65, 95>>
DatePrev == DatesIn90[1]
NKinds90 == Len(UnitCodes) * Len(DatesIn90)
NKinds == NKinds90 + Len(UnitCodes)

KindRow(k, as_of) ==
    [event_id_cnty |-> k,
     event_date |-> IF k <= NKinds90 THEN DatesIn90[((k - 1) \div Len(UnitCodes)) + 1]
                    ELSE DatePrev,
     adm2_code |-> UnitCodes[((k - 1) % Len(UnitCodes)) + 1],
     data_as_of |-> as_of]

\* Multisets of at most MaxEvents rows, as non-decreasing sequences of kinds.
EventInputs ==
    UNION {{s \in [1..n -> 1..NKinds] : \A i \in 1..(n - 1) : s[i] <= s[i + 1]} :
              n \in 0..MaxEvents}

Table90(s, as_of) ==
    LET ks == SelectSeq(s, LAMBDA k : k <= NKinds90)
    IN [i \in 1..Len(ks) |-> KindRow(ks[i], as_of)]
TablePrev(s, as_of) ==
    LET ks == SelectSeq(s, LAMBDA k : k > NKinds90)
    IN [i \in 1..Len(ks) |-> KindRow(ks[i], as_of)]

\* The cutoff of the metrics stage: the earliest the provider may declare.
MetricsCutoff == CHOOSE c \in Cutoffs : \A d \in Cutoffs : c <= d

InitMetrics ==
    /\ provider = [cutoff |-> MetricsCutoff, w90 |-> <<>>, prev |-> <<>>]
    /\ ACLED_REFRESH = TRUE
    /\ EVENTS_CSV = NoFile
    /\ EVENTS_PREV_CSV = NoFile
    /\ META_JSON = NoMeta
    /\ pc = "counts"
    /\ end_allowed = provider.cutoff
    /\ can_use_cache = FALSE
    /\ do_refresh_acled = FALSE
    /\ fetch = [w \in Windows |-> "none"]
    /\ acled_90 = <<>>
    /\ acled_prev = <<>>
    /\ \E s \in EventInputs :
          /\ events_out = Table90(s, end_allowed)
          /\ events_prev_out = TablePrev(s, end_allowed)
    /\ acled_metrics = NoMetrics
    /\ spill = NoSpill
    /\ pop \in [Units -> PopValues]
    /\ wq \in Contiguities
    /\ runs = MaxRuns
    /\ changes = MaxChanges
    /\ atStart = [cached |-> FALSE, meta |-> NoMeta]
    /\ lastRun = NoRun
    /\ DedupOff
    /\ JoinOff
    /\ ScoreOff
    /\ FetchOff
    /\ WinsorOff

NextMetrics ==
    \/ Counts
    \/ Spillover

SpecMetrics == InitMetrics /\ [][NextMetrics]_vars

\* The three windows of a unit: its count and its rate.
WindowsOf(m) ==
    { <<m.events30, m.v30>>, <<m.events_90v, m.v3m>>, <<m.events_prevv, m.v30_prev>> }

\* C5: for every unit and each of the three windows, the rate times the
\* exposed population is 100000 times the count when the population is
\* positive, and the rate is exactly 0 when the population is <= 0, whatever
\* the count.
C5_RateFormula ==
    pc \in {"spill", "done"} =>
        \A u \in Units : \A w \in WindowsOf(acled_metrics[u]) :
            IF pop[u] > 0
            THEN /\ w[2][2] > 0
                 /\ w[2][1] * pop[u] = 100000 * w[1] * w[2][2]
            ELSE w[2] = <<0, 1>>

\* One event in a unit of population 1000 gives rate_30d = 100, and a unit
\* without population that has an event gives 0.
C5_Witness ==
    /\ pc = "done"
    /\ \E u \in Units : /\ pop[u] = 1000
                        /\ acled_metrics[u].events30 = 1
                        /\ acled_metrics[u].v30 = <<100, 1>>
    /\ \E u \in Units : /\ pop[u] <= 0
                        /\ acled_metrics[u].events30 > 0
                        /\ acled_metrics[u].v30 = <<0, 1>>

RECURSIVE RSumOver(_, _)
\* the sum of f over the set S
RSumOver(S, f) ==
    IF S = {} THEN RInt(0)
    ELSE LET x == CHOOSE y \in S : TRUE
         IN RAdd(f[x], RSumOver(S \ {x}, f))

\* C6: the spillover of a unit is the arithmetic mean of rate_30d over its
\* neighbors (its weights sum to 1), and is exactly 0 when it has none.
C6_SpilloverIsNeighborMean ==
    pc = "done" =>
        \A u \in Units :
            LET v30 == [v \in Units |-> acled_metrics[v].v30]
                n == Cardinality(wq[u])
            IN IF n = 0
               THEN spill[u] = <<0, 1>>
               ELSE /\ RMul(spill[u], RInt(n)) = RSumOver(wq[u], v30)
                    /\ RSumOver(Units, [v \in Units |-> row_weight(wq, u, v)]) = <<1, 1>>

\* The chain U1 - U2 - U3 with rate_30d = (100, 0, 0): spillover = (0, 50, 0).
C6_Witness ==
    /\ pc = "done"
    /\ wq = ChainScenario
    /\ acled_metrics["U1"].v30 = <<100, 1>>
    /\ acled_metrics["U2"].v30 = <<0, 1>>
    /\ acled_metrics["U3"].v30 = <<0, 1>>
    /\ spill["U1"] = <<0, 1>>
    /\ spill["U2"] = <<50, 1>>
    /\ spill["U3"] = <<0, 1>>


\* ------------------------------------------------------------------------
\* De-duplication: one provider answer through the refresh branch and the
\* counts, as it is and with one of its records repeated
\* ------------------------------------------------------------------------
\* Provider answers of at most MaxFetchLen records, at least one.
Answers == UNION {[1..n -> Range(Catalog)] : n \in 1..MaxFetchLen}

\* df with a second copy of its record k inserted before position at.
with_copy(df, k, at) ==
    SubSeq(df, 1, at - 1) \o <<df[k]>> \o SubSeq(df, at, Len(df))

\* Lines 564-725 for one pair of answers: the per-event tables, then the
\* counts and rates.
refresh_metrics(a90, aprev, end_date, popt) ==
    metrics_of(events_table(a90, end_date), events_table(aprev, end_date),
               end_date, popt)

InitDedup ==
    /\ provider = [cutoff |-> MetricsCutoff, w90 |-> <<>>, prev |-> <<>>]
    /\ RunOff
    /\ d_pc = "start"
    /\ \E w \in Windows, a \in Answers :
          /\ \E other \in (IF w = "w90" THEN FetchPrevResults ELSE Fetch90Results) :
                fed = [x \in Windows |-> IF x = w THEN a ELSE other]
          /\ \E k \in 1..Len(a), at \in 1..(Len(a) + 1) :
                copy = [window |-> w, index |-> k, at |-> at]
    /\ metrics_once = NoMetrics
    /\ metrics_twice = NoMetrics
    /\ JoinOff
    /\ ScoreOff
    /\ FetchOff
    /\ WinsorOff

\* The answer as the provider gave it.
FeedOnce ==
    /\ d_pc = "start"
    /\ metrics_once' = refresh_metrics(fed["w90"], fed["prev"], provider.cutoff, pop)
    /\ d_pc' = "once"
    /\ UNCHANGED <<runVars, fed, copy, metrics_twice, joinVars, scoreVars, fetchVars, winsorVars>>

\* The answer with the record repeated.
FeedTwice ==
    /\ d_pc = "once"
    /\ LET twice == [fed EXCEPT ![copy.window] = with_copy(@, copy.index, copy.at)]
       IN metrics_twice' =
             refresh_metrics(twice["w90"], twice["prev"], provider.cutoff, pop)
    /\ d_pc' = "twice"
    /\ UNCHANGED <<runVars, fed, copy, metrics_once, joinVars, scoreVars, fetchVars, winsorVars>>

NextDedup ==
    \/ FeedOnce
    \/ FeedTwice

SpecDedup == InitDedup /\ [][NextDedup]_vars

\* C8: a second copy of an event of the answer (same event_id) leaves the
\* 30-day, 90-day and prior-window counts of every unit unchanged.
C8_CopyLeavesCountsUnchanged ==
    d_pc = "twice" =>
        \A u \in Units :
            /\ metrics_twice[u].events30 = metrics_once[u].events30
            /\ metrics_twice[u].events_90v = metrics_once[u].events_90v
            /\ metrics_twice[u].events_prevv = metrics_once[u].events_prevv

\* The repeated record is one that is counted: a violent event of the
\* target country, with coordinates, inside a unit.
C8_Witness ==
    /\ d_pc = "twice"
    /\ LET r == fed[copy.window][copy.index]
       IN /\ r.country = "Mexico"
          /\ r.event_type \in VIOLENT_TYPES
          /\ r.coords
          /\ r.polys # {}
    /\ \E u \in Units : metrics_once[u].events_90v > 0


\* ------------------------------------------------------------------------
\* Quantile scaling (numpy's linear interpolation), on exact fractions
\* ------------------------------------------------------------------------
isnan(x) == x = NaN
notna(xs) == SelectSeq(xs, LAMBDA x : ~isnan(x))

RECURSIVE insert_sorted(_, _)
insert_sorted(x, xs) ==
    IF xs = <<>> THEN <<x>>
    ELSE IF RLeq(x, Head(xs)) THEN <<x>> \o xs
    ELSE <<Head(xs)>> \o insert_sorted(x, Tail(xs))

RECURSIVE sorted(_)
sorted(xs) == IF xs = <<>> THEN <<>> ELSE insert_sorted(Head(xs), sorted(Tail(xs)))

\* np.nanquantile(xs, qn/qd): NaN entries are ignored; the value at the
\* virtual index (n-1)*q of the sorted rest, interpolated linearly.  NaN when
\* nothing is left.
nanquantile(xs, qn, qd) ==
    LET ys == sorted(notna(xs))
        n == Len(ys)
        lo == ((n - 1) * qn) \div qd
        frac == RNorm(<<((n - 1) * qn) % qd, qd>>)
    IN IF n = 0 THEN NaN
       ELSE IF frac[1] = 0 THEN ys[lo + 1]
       ELSE RAdd(ys[lo + 1], RMul(frac, RSub(ys[lo + 2], ys[lo + 1])))

\* np.clip(x, a, b) = minimum(maximum(x, a), b); NaN stays NaN.
clip(x, a, b) ==
    IF isnan(x) THEN NaN
    ELSE LET m == IF RLess(x, a) THEN a ELSE x
         IN IF RLess(b, m) THEN b ELSE m

\* Series.fillna(0.0) on one cell.
fillna0(x) == IF isnan(x) THEN RInt(0) ELSE x

\* ------------------------------------------------------------------------
\* The parent-region join key
\* ------------------------------------------------------------------------
\* Parent-region names as the forecast provider may spell them, in the order
\* groupby("adm1_name") sorts them.
ForecastNames ==
    <<"Estado de Mexico", "Mexico", "Oaxaca", "Veracruz", "Veracruz de Ignacio de la Llave">>

\* adm1_name of the registry rows.
ADM1_NAME == [u \in Units |->
                 IF u = "U3" THEN "México" ELSE "Veracruz de Ignacio de la Llave"]

\* canon, lines 114-116: unidecode, strip, every word capitalized.
title_ascii(x) ==
    CASE x = "Estado de Mexico" -> "Estado De Mexico"
      [] x = "Mexico" -> "Mexico"
      [] x = "México" -> "Mexico"
      [] x = "Oaxaca" -> "Oaxaca"
      [] x = "Veracruz" -> "Veracruz"
      [] x = "Veracruz de Ignacio de la Llave" -> "Veracruz De Ignacio De La Llave"

\* canon, lines 118-130: the alias map.
rep == [y \in {"Distrito Federal", "Ciudad De Mexico", "Estado De Mexico", "Mexico",
               "Queretaro De Arteaga", "Queretaro", "Veracruz", "Yucatan",
               "Nuevo Leon", "San Luis Potosi", "Michoacan De Ocampo"} |->
          CASE y = "Distrito Federal" -> "Ciudad De Mexico"
            [] y = "Estado De Mexico" -> "Mexico"
            [] y = "Queretaro De Arteaga" -> "Queretaro"
            [] y = "Veracruz" -> "Veracruz De Ignacio De La Llave"
            [] OTHER -> y]

normalize_adm1_join_name(x) ==
    LET y == title_ascii(x) IN IF y \in DOMAIN rep THEN rep[y] ELSE y

\* ------------------------------------------------------------------------
\* Left merges
\* ------------------------------------------------------------------------
RECURSIVE concat(_)
concat(ss) == IF ss = <<>> THEN <<>> ELSE Head(ss) \o concat(Tail(ss))

\* DataFrame.merge(how="left"): every left row once per matching right row,
\* in order; once with the right columns missing when nothing matches.
left_merge(L, R, on, missing) ==
    concat([i \in 1..Len(L) |->
              LET m == SelectSeq(R, LAMBDA r : \A k \in on : L[i][k] = r[k])
              IN IF m = <<>> THEN <<L[i] @@ missing>>
                 ELSE [k \in 1..Len(m) |-> L[i] @@ m[k]]])

\* the key columns of the merges (the unit names go with the unit code)
on_adm2_code == {"adm2_code"}
on_adm1_join == {"adm1_join"}
on_code_and_pop == {"adm2_code", "pop_wra"}

RECURSIVE drop_duplicate_rows(_)
\* DataFrame.drop_duplicates(): the first of the rows equal in every column.
drop_duplicate_rows(df) ==
    IF df = <<>> THEN <<>>
    ELSE LET n == Len(df)
             front == drop_duplicate_rows(SubSeq(df, 1, n - 1))
         IN IF \E i \in 1..(n - 1) : df[i] = df[n] THEN front ELSE Append(front, df[n])


\* ------------------------------------------------------------------------
\* The final join on its own: registry, population, facilities, metrics,
\* spillover, forecast, poverty
\* ------------------------------------------------------------------------
\* rows of the forecast the provider serves, at most
MaxCastRows == 3
\* runs of the join stage
MaxJoinRuns == 2

CastRawValues == {0, 10, 30}
\* facilities and poverty rate of each unit in the static tables
FacilityScenario == [u \in Units |-> IF u = "U1" THEN 2 ELSE 0]
PovertyScenario == [u \in Units |-> IF u = "U2" THEN 40 ELSE 10]

\* A table keyed by unit code: one row per unit of S, in registry order.
keyed_table(S, row) ==
    LET codes == SelectSeq(ADM2, LAMBDA u : u \in S)
    IN [i \in 1..Len(codes) |-> row[codes[i]]]

\* The static tables as their builders leave them: one row per unit code,
\* units possibly absent.
UnitSubsets == {Units, Units \ {"U3"}}
PopTables ==
    {keyed_table(S, [u \in Units |-> [adm2_code |-> u, pop_wra |-> RInt(PopScenario[u])]]) :
        S \in UnitSubsets}
FacTables ==
    {keyed_table(S, [u \in Units |->
                             [adm2_code |-> u, facilities |-> RInt(FacilityScenario[u])]]) :
        S \in UnitSubsets}
MviTables ==
    {keyed_table(S, [u \in Units |->
                             [adm2_code |-> u, MVI_raw |-> RInt(PovertyScenario[u])]]) :
        S \in UnitSubsets}

\* The 90-day event table of the join stage: no event, or one event of the
\* last 30 days in the first unit.
JoinEvents == {<<>>, <<Len(UnitCodes) + 1>>}

\* cast_fetch_mexico: one row per distinct adm1_name (groupby), sorted by name.
Forecasts ==
    UNION {{[i \in 1..n |-> [adm1_name |-> ForecastNames[ix[i]], cast_raw |-> RInt(v[i])]] :
               ix \in {f \in [1..n -> 1..Len(ForecastNames)] :
                          \A i \in 1..(n - 1) : f[i] < f[i + 1]},
               v \in [1..n -> CastRawValues]} :
            n \in 0..MaxCastRows}

\* pop_wra per unit after fillna(0), as the rates read it.
pop_wra_of(poptable) ==
    [u \in Units |->
        IF \E i \in DOMAIN poptable : poptable[i].adm2_code = u
        THEN (CHOOSE r \in Range(poptable) : r.adm2_code = u).pop_wra[1]
        ELSE 0]

\* Lines 740-769: registry, population, facilities; facility density.
adm2_base_of(poptable, factable) ==
    LET reg == [i \in 1..Len(ADM2) |->
                   [adm2_code |-> ADM2[i], adm1_name |-> ADM1_NAME[ADM2[i]],
                    adm1_join |-> normalize_adm1_join_name(ADM1_NAME[ADM2[i]])]]
        m1 == left_merge(reg, poptable, on_adm2_code, [pop_wra |-> NaN])
        m2 == left_merge(m1, factable, on_adm2_code, [facilities |-> NaN])
    IN [i \in 1..Len(m2) |->
          LET fac == fillna0(m2[i].facilities)
              pw == fillna0(m2[i].pop_wra)
              den == IF RLess(pw, RInt(1)) THEN RInt(1) ELSE pw
          IN [m2[i] EXCEPT !.facilities = fac, !.pop_wra = pw] @@
             [fac_per_100k |-> RDiv(RMul(RInt(RateScale), fac), den)]]

\* Lines 799-802: the forecast scaled to [0, 1] between its 5% and 95%
\* quantiles (0.5 everywhere when they coincide), and the join key.
cast_scale(col) ==
    LET a == nanquantile(col, 5, 100)
        b == nanquantile(col, 95, 100)
    IN [i \in DOMAIN col |->
          IF RLess(a, b) THEN RDiv(RSub(clip(col[i], a, b), a), RSub(b, a))
          ELSE <<1, 2>>]

cast_state_of(fetched) ==
    LET scaled == cast_scale([i \in 1..Len(fetched) |-> fetched[i].cast_raw])
    IN [i \in 1..Len(fetched) |->
          [adm1_name |-> fetched[i].adm1_name,
           cast_raw |-> fetched[i].cast_raw,
           cast_state |-> scaled[i],
           adm1_join |-> normalize_adm1_join_name(fetched[i].adm1_name)]]

\* df[["adm1_join", "cast_state"]]
join_columns(df) ==
    [i \in 1..Len(df) |-> [adm1_join |-> df[i].adm1_join, cast_state |-> df[i].cast_state]]

\* Lines 658-736 as rows: the metrics and the spillover of every unit.
metrics_rows(m, popfn) ==
    [i \in 1..Len(ADM2) |->
        [adm2_code |-> ADM2[i], pop_wra |-> RInt(popfn[ADM2[i]]),
         v30 |-> m[ADM2[i]].v30, v3m |-> m[ADM2[i]].v3m,
         dlt_v30_raw |-> m[ADM2[i]].dlt_v30_raw]]
spill_rows(sp) ==
    [i \in 1..Len(ADM2) |-> [adm2_code |-> ADM2[i], spillover |-> sp[ADM2[i]]]]

\* Lines 830-839: the four left merges, then fillna(0) on the numeric columns.
final_of(base, mrows, srows, casttable, mvitable) ==
    LET m1 == left_merge(base, mrows, on_code_and_pop,
                         [v30 |-> NaN, v3m |-> NaN, dlt_v30_raw |-> NaN])
        m2 == left_merge(m1, srows, on_adm2_code, [spillover |-> NaN])
        m3 == left_merge(m2, casttable, on_adm1_join, [cast_state |-> NaN])
        m4 == left_merge(m3, mvitable, on_adm2_code, [MVI_raw |-> NaN])
    IN [i \in 1..Len(m4) |->
          [m4[i] EXCEPT !.v30 = fillna0(@), !.v3m = fillna0(@),
                        !.dlt_v30_raw = fillna0(@), !.spillover = fillna0(@),
                        !.cast_state = fillna0(@), !.fac_per_100k = fillna0(@),
                        !.MVI_raw = fillna0(@)]]

\* A forecast file of the current month left by another writer: it has the
\* forecast_date column and the raw forecast, not the adm1_join and
\* cast_state columns.
LegacyCastFile ==
    [exists |-> TRUE, rows |-> <<[adm1_name |-> ForecastNames[1], cast_raw |-> RInt(10)]>>]

\* Both columns of _cast_tmp[["adm1_join", "cast_state"]] are in the file.
has_join_columns(file) ==
    \A i \in DOMAIN file.rows : {"adm1_join", "cast_state"} \subseteq DOMAIN file.rows[i]

InitJoin ==
    /\ provider = [cutoff |-> MetricsCutoff, w90 |-> <<>>, prev |-> <<>>]
    /\ RunOff
    /\ DedupOff
    /\ ScoreOff
    /\ FetchOff
    /\ WinsorOff
    /\ j_pc = "base"
    /\ j_runs = 1
    /\ tables \in [pop : PopTables, fac : FacTables, mvi : MviTables,
                   events : JoinEvents, forecast : Forecasts]
    /\ CAST_STATE_CSV \in {NoFile, LegacyCastFile}
    /\ adm2_base = <<>>
    /\ cast = <<>>
    /\ use_cast_cache = FALSE
    /\ cast_bound = FALSE
    /\ final = <<>>

joinOthers == <<runVars, dedupVars, scoreVars, fetchVars, winsorVars>>

BuildBase ==
    /\ j_pc = "base"
    /\ adm2_base' = adm2_base_of(tables.pop, tables.fac)
    /\ j_pc' = "cast"
    /\ UNCHANGED <<j_runs, tables, CAST_STATE_CSV, cast, use_cast_cache, cast_bound,
                   final, joinOthers>>

\* Lines 781-791: the cached forecast table is of the current month and the
\* forecast refresh is not forced.  Line 788 sets use_cast_cache before line
\* 789 selects the two columns; the KeyError of a missing column is
\* swallowed at line 790 and leaves cast unassigned.
UseCastCache ==
    /\ j_pc = "cast"
    /\ CAST_STATE_CSV.exists
    /\ use_cast_cache' = TRUE
    /\ IF has_join_columns(CAST_STATE_CSV)
       THEN /\ cast' = join_columns(CAST_STATE_CSV.rows)
            /\ cast_bound' = TRUE
       ELSE UNCHANGED <<cast, cast_bound>>
    /\ j_pc' = "final"
    /\ UNCHANGED <<j_runs, tables, CAST_STATE_CSV, adm2_base, final, joinOthers>>

\* Lines 793-813: the forecast is fetched, scaled, cached and de-duplicated.
FetchCast ==
    /\ j_pc = "cast"
    /\ LET cast_state == cast_state_of(tables.forecast)
       IN IF tables.forecast = <<>>
          THEN /\ cast' = <<>>
               /\ UNCHANGED CAST_STATE_CSV
          ELSE /\ CAST_STATE_CSV' = [exists |-> TRUE, rows |-> cast_state]
               /\ cast' = drop_duplicate_rows(join_columns(cast_state))
    /\ cast_bound' = TRUE
    /\ j_pc' = "final"
    /\ UNCHANGED <<j_runs, tables, adm2_base, use_cast_cache, final, joinOthers>>

\* Lines 830-839; the merge of an unassigned cast raises NameError.
FinalJoin ==
    /\ j_pc = "final"
    /\ LET popfn == pop_wra_of(tables.pop)
           m == metrics_of(Table90(tables.events, provider.cutoff), <<>>,
                           provider.cutoff, popfn)
           sp == spillover_of(wq, [u \in Units |-> m[u].v30])
       IN IF cast_bound
          THEN /\ final' = final_of(adm2_base, metrics_rows(m, popfn), spill_rows(sp),
                                    cast, tables.mvi)
               /\ j_pc' = "done"
          ELSE /\ j_pc' = "failed"
               /\ UNCHANGED final
    /\ UNCHANGED <<j_runs, tables, CAST_STATE_CSV, adm2_base, cast, use_cast_cache,
                   cast_bound, joinOthers>>

\* The script runs again, on the cache the last run left.
RunAgain ==
    /\ j_pc \in {"done", "failed"}
    /\ j_runs < MaxJoinRuns
    /\ j_runs' = j_runs + 1
    /\ j_pc' = "base"
    /\ adm2_base' = <<>>
    /\ cast' = <<>>
    /\ use_cast_cache' = FALSE
    /\ cast_bound' = FALSE
    /\ final' = <<>>
    /\ UNCHANGED <<tables, CAST_STATE_CSV, joinOthers>>

NextJoin ==
    \/ BuildBase
    \/ UseCastCache
    \/ FetchCast
    \/ FinalJoin
    \/ RunAgain

SpecJoin == InitJoin /\ [][NextJoin]_vars

\* C4: the final table holds every unit of the registry exactly once.
C4_EveryUnitExactlyOnce ==
    j_pc = "done" =>
        \A u \in Units : Cardinality({i \in DOMAIN final : final[i].adm2_code = u}) = 1


\* ------------------------------------------------------------------------
\* The scores: normalization of the columns of the final table, the two
\* indices and the priority of one observed row
\* ------------------------------------------------------------------------
\* raw levels of a column: 0..MaxRaw
MaxRaw == 2

\* rows of the final table: one per registry row.
NRows == Len(ADM2)

\* NaN-propagating float arithmetic.
fadd(p, q) == IF isnan(p) \/ isnan(q) THEN NaN ELSE RAdd(p, q)
fmul(p, q) == IF isnan(p) \/ isnan(q) THEN NaN ELSE RMul(p, q)

\* winsor01_series answering one half where the quantiles coincide, as the
\* forecast scaling of line 801 does.
winsor01_series_half_on_collapse(col) ==
    LET a == nanquantile(col, 5, 100)
        b == nanquantile(col, 95, 100)
    IN IF notna(col) = <<>> THEN [i \in DOMAIN col |-> RInt(0)]
       ELSE IF RLeq(b, a) THEN [i \in DOMAIN col |-> RNorm(<<1, 2>>)]
       ELSE [i \in DOMAIN col |->
               IF isnan(col[i]) THEN NaN
               ELSE RDiv(RSub(clip(col[i], a, b), a), RSub(b, a))]

\* winsor01_series with lo = 0.05, hi = 0.95.
winsor01_series(col) ==
    LET a == nanquantile(col, 5, 100)
        b == nanquantile(col, 95, 100)
    IN IF notna(col) = <<>> THEN [i \in DOMAIN col |-> RInt(0)]
       ELSE IF RLeq(b, a) THEN [i \in DOMAIN col |-> RInt(0)]
       ELSE [i \in DOMAIN col |->
               IF isnan(col[i]) THEN NaN
               ELSE RDiv(RSub(clip(col[i], a, b), a), RSub(b, a))]

\* Lines 844-848: the delta clipped to its 10th..90th percentiles, mapped to
\* [-1, 1] (all zeros when the percentiles coincide), then winsorized.
dV30_of(d) ==
    LET p1 == nanquantile(d, 10, 100)
        p9 == nanquantile(d, 90, 100)
        d_unit == IF RLess(p1, p9)
                  THEN [i \in DOMAIN d |->
                          RAdd(RInt(-1),
                               RDiv(RMul(RInt(2), RSub(clip(d[i], p1, p9), p1)),
                                    RSub(p9, p1)))]
                  ELSE [i \in DOMAIN d |-> RInt(0)]
    IN winsor01_series(d_unit)

\* Line 769: 1 / fac_per_100k where it is positive, NaN elsewhere.
inv_fac_density_of(fac_per_100k) ==
    [i \in DOMAIN fac_per_100k |->
        IF RLess(RInt(0), fac_per_100k[i]) THEN RDiv(RInt(1), fac_per_100k[i]) ELSE NaN]

\* Columns of the final table: non-negative levels, and signed differences.
\* The observed row is the first; the columns range over all vectors, so
\* the cells of any row occur there.
Columns == [1..NRows -> {RInt(v) : v \in 0..MaxRaw}]
DeltaLevels == {-1, 0, 1}
DeltaColumns == [1..NRows -> {RInt(v) : v \in DeltaLevels}]

\* cast_state of a row of the final table after the merge of line 834 and
\* fillna(0) of line 839: the scaled forecast of its region when the
\* forecast table has a row for the region, or 0 when it has none.
CastCells(in_forecast) ==
    IF in_forecast
    THEN {Head(cast_scale(c)) : c \in [1..NRows -> {RInt(v) : v \in CastRawValues}]}
    ELSE {RInt(0)}


\* A weight given in hundredths.
pct(k) == RNorm(<<k, 100>>)

w_dcr == [V3m |-> pct(35), S |-> pct(15), A |-> pct(30), MVI |-> pct(20)]

\* A with-forecast vector with two of its weights exchanged.
w_prs_cast_exchanged ==
    [V30 |-> pct(30), dV30 |-> pct(25), S |-> pct(10), CAST |-> pct(12),
     A |-> pct(18), MVI |-> pct(5)]

\* A with-forecast vector that gives the forecast less, short of a full
\* total.
w_prs_cast_light ==
    [V30 |-> pct(30), dV30 |-> pct(25), S |-> pct(10), CAST |-> pct(13),
     A |-> pct(12), MVI |-> pct(5)]

w_prs_cast ==
    [V30 |-> pct(30), dV30 |-> pct(25), S |-> pct(10), CAST |-> pct(18),
     A |-> pct(12), MVI |-> pct(5)]

\* A without-forecast vector that weighs the 30-day rate more.
w_prs_nocast_heavy ==
    [V30 |-> pct(50), dV30 |-> pct(30), S |-> pct(10), A |-> pct(12), MVI |-> pct(8)]

w_prs_nocast ==
    [V30 |-> pct(40), dV30 |-> pct(30), S |-> pct(10), A |-> pct(12), MVI |-> pct(8)]

\* compute_prs_row, the first return (lines 871-872).
prs_with_cast(r) ==
    LET w == w_prs_cast
    IN fadd(fadd(fadd(fadd(fadd(fmul(r.V30, w.V30), fmul(r.dV30, w.dV30)),
                                fmul(r.S, w.S)),
                           fmul(r.CAST, w.CAST)),
                      fmul(r.A, w.A)),
            fmul(r.MVI, w.MVI))

\* compute_prs_row, the second return (lines 875-876).
prs_without_cast(r) ==
    LET w == w_prs_nocast
    IN fadd(fadd(fadd(fadd(fmul(r.V30, w.V30), fmul(r.dV30, w.dV30)),
                           fmul(r.S, w.S)),
                      fmul(r.A, w.A)),
            fmul(r.MVI, w.MVI))

\* A row function that takes the with-forecast branch for every row.
compute_prs_row_always_cast(r) == prs_with_cast(r)

compute_prs_row(r) ==
    IF RLess(RInt(0), r.CAST) THEN prs_with_cast(r) ELSE prs_without_cast(r)

\* Lines 878-879.
DCR_of(r) ==
    fadd(fadd(fadd(fmul(r.V3m, w_dcr.V3m), fmul(r.S, w_dcr.S)),
              fmul(r.A, w_dcr.A)),
         fmul(r.MVI, w_dcr.MVI))

\* Lines 878-889 for one row: the indices, their display scale, the priority,
\* then fillna(0) on each.
score_of(r, prs) ==
    LET dcr == DCR_of(r)
    IN [DCR |-> fillna0(dcr),
        PRS |-> fillna0(prs),
        DCR100 |-> fillna0(fmul(RInt(100), dcr)),
        PRS100 |-> fillna0(fmul(RInt(100), prs)),
        priority100 |-> fillna0(fmul(RInt(100),
                                     fadd(fmul(pct(60), prs), fmul(pct(40), dcr))))]

InitScore ==
    /\ provider = [cutoff |-> MetricsCutoff, w90 |-> <<>>, prev |-> <<>>]
    /\ RunOff
    /\ DedupOff
    /\ JoinOff
    /\ FetchOff
    /\ WinsorOff
    /\ s_pc = "V30"
    /\ sig = NoSignals
    /\ prs_row = RInt(0)
    /\ score = NoScore

scoreOthers == <<runVars, dedupVars, joinVars, fetchVars, winsorVars>>

\* Line 841.
NormalizeV30 ==
    /\ s_pc = "V30"
    /\ \E v30 \in Columns : sig' = [sig EXCEPT !.V30 = Head(winsor01_series(v30))]
    /\ s_pc' = "V3m"
    /\ UNCHANGED <<prs_row, score, scoreOthers>>

\* Line 842.
NormalizeV3m ==
    /\ s_pc = "V3m"
    /\ \E v3m \in Columns : sig' = [sig EXCEPT !.V3m = Head(winsor01_series(v3m))]
    /\ s_pc' = "dV30"
    /\ UNCHANGED <<prs_row, score, scoreOthers>>

\* Lines 844-848.
NormalizeDelta ==
    /\ s_pc = "dV30"
    /\ \E d \in DeltaColumns : sig' = [sig EXCEPT !.dV30 = Head(dV30_of(d))]
    /\ s_pc' = "S"
    /\ UNCHANGED <<prs_row, score, scoreOthers>>

\* Line 850.
NormalizeS ==
    /\ s_pc = "S"
    /\ \E spillover \in Columns :
          sig' = [sig EXCEPT !.S = Head(winsor01_series(spillover))]
    /\ s_pc' = "CAST"
    /\ UNCHANGED <<prs_row, score, scoreOthers>>

\* Line 851: the forecast signal is the scaled forecast as it is.  The row
\* remembers whether the forecast table had a row for its region.
TakeCAST ==
    /\ s_pc = "CAST"
    /\ \E m \in BOOLEAN : \E c \in CastCells(m) :
          sig' = [sig EXCEPT !.CAST = c, !.in_forecast = m]
    /\ s_pc' = "A"
    /\ UNCHANGED <<prs_row, score, scoreOthers>>

\* Line 853.
NormalizeA ==
    /\ s_pc = "A"
    /\ \E fac_per_100k \in Columns :
          sig' = [sig EXCEPT !.A =
                     Head(winsor01_series(inv_fac_density_of(fac_per_100k)))]
    /\ s_pc' = "MVI"
    /\ UNCHANGED <<prs_row, score, scoreOthers>>

\* Line 854.
NormalizeMVI ==
    /\ s_pc = "MVI"
    /\ \E MVI_raw \in Columns :
          sig' = [sig EXCEPT !.MVI = Head(winsor01_series(MVI_raw))]
    /\ s_pc' = "compose"
    /\ UNCHANGED <<prs_row, score, scoreOthers>>

\* Lines 864-889.
Compose ==
    /\ s_pc = "compose"
    /\ prs_row' = compute_prs_row(sig)
    /\ score' = score_of(sig, prs_row')
    /\ s_pc' = "done"
    /\ UNCHANGED <<sig, scoreOthers>>

NextScore ==
    \/ NormalizeV30
    \/ NormalizeV3m
    \/ NormalizeDelta
    \/ NormalizeS
    \/ TakeCAST
    \/ NormalizeA
    \/ NormalizeMVI
    \/ Compose

SpecScore == InitScore /\ [][NextScore]_vars

\* C7: the priority of every row lies in [0, 100], whichever branch its
\* forecast signal selects.
C7_PriorityWithin0And100 ==
    s_pc = "done" =>
        /\ RLeq(RInt(0), score.priority100)
        /\ RLeq(score.priority100, RInt(100))

\* A row of the with-forecast branch at the top of the scale, all of its
\* signals being 1.
C7_Witness ==
    /\ s_pc = "done"
    /\ RLess(RInt(0), sig.CAST)
    /\ score.priority100 = RInt(100)

\* The two PRS formulas with their weights in hundredths, on numbers.
with_cast_hundredths(r) ==
    RAdd(RAdd(RAdd(RAdd(RAdd(RMul(RInt(30), r.V30), RMul(RInt(25), r.dV30)),
                             RMul(RInt(10), r.S)),
                        RMul(RInt(18), r.CAST)),
                   RMul(RInt(12), r.A)),
         RMul(RInt(5), r.MVI))
without_cast_hundredths(r) ==
    RAdd(RAdd(RAdd(RAdd(RMul(RInt(40), r.V30), RMul(RInt(30), r.dV30)),
                        RMul(RInt(10), r.S)),
                   RMul(RInt(12), r.A)),
         RMul(RInt(8), r.MVI))

\* C9: what compute_prs_row returns for a row is the with-forecast formula
\* when the row's CAST is > 0 and the without-forecast formula otherwise (no
\* value when the access signal is missing); the PRS column is that value,
\* 0 where there is none.
C9_BranchByCastOnly ==
    s_pc = "done" =>
        /\ prs_row = IF isnan(sig.A) THEN NaN
                     ELSE IF RLess(RInt(0), sig.CAST)
                          THEN RDiv(with_cast_hundredths(sig), RInt(100))
                          ELSE RDiv(without_cast_hundredths(sig), RInt(100))
        /\ score.PRS = fillna0(prs_row)

\* A row without forecast whose two formulas differ.
C9_Witness ==
    /\ s_pc = "done"
    /\ sig.CAST = RInt(0)
    /\ ~isnan(sig.A)
    /\ RLess(RInt(0), sig.V30)
    /\ prs_row # prs_with_cast(sig)

\* C10 as stated: for a row with CAST # 0 the two formulas give different
\* results.
C10_FormulasDifferWheneverCast ==
    (s_pc = "done" /\ sig.CAST # RInt(0) /\ ~isnan(sig.A)) =>
        prs_with_cast(sig) # prs_without_cast(sig)

\* C10: for a row with CAST # 0 the two formulas give different results
\* exactly when 0.18*CAST differs from 0.10*V30 + 0.05*dV30 + 0.03*MVI.
C10_FormulasDifferIffGap ==
    (s_pc = "done" /\ sig.CAST # RInt(0) /\ ~isnan(sig.A)) =>
        (prs_with_cast(sig) # prs_without_cast(sig)
            <=> RMul(RInt(18), sig.CAST) #
                    RAdd(RAdd(RMul(RInt(10), sig.V30), RMul(RInt(5), sig.dV30)),
                         RMul(RInt(3), sig.MVI)))

\* A row with CAST = 1/2 on which the two formulas agree.
C10_Witness ==
    /\ s_pc = "done"
    /\ sig.CAST = <<1, 2>>
    /\ sig.V30 = <<1, 2>> /\ sig.dV30 = <<1, 2>> /\ sig.MVI = <<1, 2>>
    /\ sig.S = RInt(0) /\ sig.A = RInt(1)
    /\ prs_with_cast(sig) = prs_without_cast(sig)
    /\ prs_row = <<51, 100>>

\* ------------------------------------------------------------------------
\* Spatial assignment of an event to one unit
\* ------------------------------------------------------------------------
\* C11: every event appears once in the 90-day per-event table, and the
\* 90-day counts of the units together count no event more than once.
C11_EventAssignedOnce ==
    /\ \A i, j \in DOMAIN events_out :
          events_out[i].event_id_cnty = events_out[j].event_id_cnty => i = j
    /\ pc \in {"spill", "done"} =>
          \A id \in {events_out[i].event_id_cnty : i \in DOMAIN events_out} :
              Cardinality({u \in Units :
                              \E i \in DOMAIN events_out :
                                  /\ events_out[i].event_id_cnty = id
                                  /\ events_out[i].adm2_code = u}) <= 1

\* ------------------------------------------------------------------------
\* The cached branch with a table absent
\* ------------------------------------------------------------------------
\* C12: in a run that skipped the refresh, a window whose cached table is
\* absent is an empty table, every unit has counts and rates 0 for it, and
\* the run does not end in an exception.
C12_AbsentCacheIsEmpty ==
    /\ (pc \in {"counts", "spill", "done"} /\ ~do_refresh_acled /\ ~EVENTS_CSV.exists) =>
          /\ events_out = <<>>
          /\ pc # "counts" =>
                \A u \in Units :
                    /\ acled_metrics[u].events30 = 0 /\ acled_metrics[u].events_90v = 0
                    /\ acled_metrics[u].v30 = RInt(0) /\ acled_metrics[u].v3m = RInt(0)
    /\ (pc \in {"counts", "spill", "done"} /\ ~do_refresh_acled /\ ~EVENTS_PREV_CSV.exists) =>
          /\ events_prev_out = <<>>
          /\ pc # "counts" =>
                \A u \in Units :
                    /\ acled_metrics[u].events_prevv = 0
                    /\ acled_metrics[u].v30_prev = RInt(0)
    /\ (pc = "failed" /\ end_allowed # 0) => do_refresh_acled

\* A completed run that skipped the refresh with the 90-day table absent and
\* the prior-window table present and counted.
C12_Witness ==
    /\ pc = "done"
    /\ ~do_refresh_acled
    /\ ~EVENTS_CSV.exists
    /\ EVENTS_PREV_CSV.exists
    /\ \E u \in Units : acled_metrics[u].events_prevv > 0

\* ------------------------------------------------------------------------
\* One paginated fetch on its own: acled_fetch (lines 171-188) and the page
\* loop of cast_fetch_mexico (lines 455-471)
\* ------------------------------------------------------------------------
\* the page-count ceiling of acled_fetch (200 in the source)
max_pages == 3
\* the page size (5000 in the source)
limit == 2

\* HTTP statuses the provider answers with.
Statuses == {200, 404, 500}

\* Response.raise_for_status with a threshold that lets client errors pass.
raise_for_status_5xx_only(status) == status >= 500

\* Response.raise_for_status: raises on 4xx and 5xx.
raise_for_status(status) == status >= 400

\* The records of page p when it holds n of them.
body(p, n) == [i \in 1..n |-> <<p, i>>]

\* What the provider may answer for page p: an error, or up to limit records.
Responses(p) ==
    {[status |-> st, data |-> <<>>] : st \in Statuses \ {200}} \cup
    {[status |-> 200, data |-> body(p, n)] : n \in 0..limit}

\* The answer to a request for page p; past what the provider holds, an
\* empty page.
response(p) == IF p \in DOMAIN served THEN served[p] ELSE [status |-> 200, data |-> <<>>]

InitFetch ==
    /\ provider = [cutoff |-> MetricsCutoff, w90 |-> <<>>, prev |-> <<>>]
    /\ RunOff
    /\ DedupOff
    /\ JoinOff
    /\ ScoreOff
    /\ WinsorOff
    /\ f_pc = "paging"
    /\ fetcher \in {"acled_fetch", "cast_fetch_mexico"}
    /\ served \in {s \in [1..max_pages -> UNION {Responses(p) : p \in 1..max_pages}] :
                      \A p \in 1..max_pages : s[p] \in Responses(p)}
    /\ page = 1
    /\ frames = <<>>
    /\ requests = <<>>
    /\ returned = NoReturn

fetchOthers == <<runVars, dedupVars, joinVars, scoreVars, winsorVars>>

\* One turn of the loop of acled_fetch that goes on to the next page after
\* an empty one.
AcledPageSkippingEmpty ==
    /\ f_pc = "paging"
    /\ fetcher = "acled_fetch"
    /\ requests' = Append(requests, page)
    /\ LET r == response(page)
       IN IF raise_for_status(r.status)
          THEN /\ f_pc' = "raised"
               /\ UNCHANGED <<page, frames>>
          ELSE /\ frames' = IF r.data = <<>> THEN frames ELSE Append(frames, r.data)
               /\ page' = page + 1
               /\ f_pc' = IF page = max_pages THEN "concat" ELSE "paging"
    /\ UNCHANGED <<fetcher, served, returned, fetchOthers>>

\* One turn of the loop of acled_fetch (lines 173-187): request the page,
\* raise on an error status, stop on an empty page, else keep the page; the
\* loop ends after page max_pages.
AcledPage ==
    /\ f_pc = "paging"
    /\ fetcher = "acled_fetch"
    /\ requests' = Append(requests, page)
    /\ LET r == response(page)
       IN IF raise_for_status(r.status)
          THEN /\ f_pc' = "raised"
               /\ UNCHANGED <<page, frames>>
          ELSE IF r.data = <<>>
          THEN /\ f_pc' = "concat"
               /\ UNCHANGED <<page, frames>>
          ELSE /\ frames' = Append(frames, r.data)
               /\ page' = page + 1
               /\ f_pc' = IF page = max_pages THEN "concat" ELSE "paging"
    /\ UNCHANGED <<fetcher, served, returned, fetchOthers>>

\* One turn of the loop of cast_fetch_mexico (lines 459-469): request the
\* page, raise on an error status, stop on an empty chunk, keep the chunk,
\* stop after a chunk shorter than the page size.
CastPage ==
    /\ f_pc = "paging"
    /\ fetcher = "cast_fetch_mexico"
    /\ requests' = Append(requests, page)
    /\ LET r == response(page)
       IN IF raise_for_status(r.status)
          THEN /\ f_pc' = "raised"
               /\ UNCHANGED <<page, frames>>
          ELSE IF r.data = <<>>
          THEN /\ f_pc' = "concat"
               /\ UNCHANGED <<page, frames>>
          ELSE /\ frames' = Append(frames, r.data)
               /\ IF Len(r.data) < limit
                  THEN /\ f_pc' = "concat"
                       /\ UNCHANGED page
                  ELSE /\ f_pc' = "paging"
                       /\ page' = page + 1
    /\ UNCHANGED <<fetcher, served, returned, fetchOthers>>

\* pd.concat(frames, ignore_index=True) if frames else an empty frame
\* (lines 188 and 471).
Return ==
    /\ f_pc = "concat"
    /\ returned' = [set |-> TRUE, rows |-> concat(frames)]
    /\ f_pc' = "returned"
    /\ UNCHANGED <<fetcher, served, page, frames, requests, fetchOthers>>

NextFetch ==
    \/ AcledPage
    \/ CastPage
    \/ Return

\* The loop runs to its end: a request returns or times out.
SpecFetch == InitFetch /\ [][NextFetch]_vars /\ WF_vars(NextFetch)

\* What a returned event fetch must look like: pages 1..k requested in
\* order, k at most the ceiling, every page before the last non-empty, the
\* last one empty or the ceiling reached, and the return value the non-empty
\* pages in page order.
returned_as_specified ==
    LET k == Len(requests)
        kept == SelectSeq([i \in 1..k |-> response(i).data], LAMBDA d : d # <<>>)
    IN /\ k \in 1..max_pages
       /\ requests = [i \in 1..k |-> i]
       /\ \A i \in 1..(k - 1) : response(i).data # <<>>
       /\ response(k).data = <<>> \/ k = max_pages
       /\ returned = [set |-> TRUE, rows |-> concat(kept)]

\* C13: the event fetch terminates, and what it returns is the concatenation
\* of the non-empty pages 1, 2, ... up to the first empty page or the
\* page-count ceiling.
C13_FetchTerminates ==
    /\ <>(f_pc \in {"returned", "raised"})
    /\ []((f_pc = "returned" /\ fetcher = "acled_fetch") => returned_as_specified)

\* An event fetch that stopped at the ceiling with every page kept.
C13_Witness ==
    /\ f_pc = "returned"
    /\ fetcher = "acled_fetch"
    /\ Len(requests) = max_pages
    /\ Len(frames) = max_pages
    /\ returned.rows # <<>>

C14_BaseSignalsDefined ==
    s_pc \in {"compose", "done"} =>
        \A k \in {"V3m", "V30", "S", "A", "MVI"} :
            /\ ~isnan(sig[k])
            /\ RLeq(RInt(0), sig[k])
            /\ RLeq(sig[k], RInt(1))

\* ------------------------------------------------------------------------
\* winsor01_series on its own (lines 82-90): one call on any short column
\* ------------------------------------------------------------------------
MaxWinsorLen == 3

\* A cell of the column handed in: a number (NaN included) or a text that
\* is no number.
WinsorLevels == (0 - 1)..MaxRaw
RawCells ==
    {[numeric |-> TRUE, value |-> RInt(v), text |-> ""] : v \in WinsorLevels}
    \cup {[numeric |-> TRUE, value |-> NaN, text |-> ""],
          [numeric |-> FALSE, value |-> NaN, text |-> "n/a"]}

\* pd.to_numeric(s, errors="coerce") (line 83): what is no number becomes NaN.
to_numeric(s) == [i \in DOMAIN s |-> IF s[i].numeric THEN s[i].value ELSE NaN]

InitWinsor ==
    /\ provider = [cutoff |-> MetricsCutoff, w90 |-> <<>>, prev |-> <<>>]
    /\ RunOff
    /\ DedupOff
    /\ JoinOff
    /\ ScoreOff
    /\ FetchOff
    /\ w_pc = "called"
    /\ w_in \in UNION {[1..n -> RawCells] : n \in 0..MaxWinsorLen}
    /\ w_out = <<>>

winsorOthers == <<runVars, dedupVars, joinVars, scoreVars, fetchVars>>

\* The body of winsor01_series; no statement of it can raise on a column of
\* numbers, NaN and text.
Winsorize ==
    /\ w_pc = "called"
    /\ w_out' = winsor01_series(to_numeric(w_in))
    /\ w_pc' = "returned"
    /\ UNCHANGED <<w_in, winsorOthers>>

NextWinsor == Winsorize

SpecWinsor == InitWinsor /\ [][NextWinsor]_vars

\* What the call must have returned: a vector of the length of its input,
\* all zeros when no entry is numeric or when the upper quantile is not
\* above the lower one, and otherwise with each numeric entry between 0
\* and 1.
winsor_as_specified ==
    LET s == to_numeric(w_in)
        a == nanquantile(s, 5, 100)
        b == nanquantile(s, 95, 100)
    IN /\ Len(w_out) = Len(w_in)
       /\ IF notna(s) = <<>> \/ RLeq(b, a)
          THEN \A i \in DOMAIN w_out : w_out[i] = RInt(0)
          ELSE \A i \in DOMAIN w_out :
                  ~isnan(w_out[i]) =>
                      RLeq(RInt(0), w_out[i]) /\ RLeq(w_out[i], RInt(1))

\* C15: winsor01_series never raises (every step of a call is its return)
\* and returns a vector of the length of its input; the vector is all
\* zeros when no entry is numeric or when the quantile range collapses,
\* and otherwise each of its numeric entries lies between 0 and 1.
C15_WinsorTotal ==
    /\ [][w_pc = "called" /\ w_pc' = "returned"]_vars
    /\ [](w_pc = "returned" => winsor_as_specified)

\* A constant column of three numbers, which collapses the quantile range.
C15_Witness ==
    /\ w_pc = "returned"
    /\ Len(w_in) = MaxWinsorLen
    /\ \A i \in DOMAIN w_in : w_in[i].numeric /\ w_in[i].value = RInt(1)
    /\ \A i \in DOMAIN w_out : w_out[i] = RInt(0)

\* ------------------------------------------------------------------------
\* A metadata write that fails
\* ------------------------------------------------------------------------
\* The metadata write of the current run has failed: the run has stored its
\* refresh and the file does not carry the run's stamp.
meta_write_failed ==
    /\ pc \in {"counts", "spill", "done"}
    /\ do_refresh_acled
    /\ ~(META_JSON.exists /\ META_JSON.last_run = runs)

\* C16: a metadata write that fails after a refresh does not end the run
\* (a run ends in failure only before its refresh is stored), and leaves to
\* the next run the cutoff that was persisted before.
C16_FailedWriteKeepsPreviousMeta ==
    /\ pc = "failed" => \E w \in Windows : fetch[w] # "ok"
    /\ meta_write_failed =>
          last_end_allowed(META_JSON) = last_end_allowed(atStart.meta)

\* C18: a row whose region has a row in the forecast table is scored with
\* the with-CAST weights, whatever its raw forecast; the weights without
\* CAST serve only the rows whose region has no forecast.
C18_ForecastRowScoredWithCast ==
    (s_pc = "done" /\ sig.in_forecast) => prs_row = prs_with_cast(sig)

\* ------------------------------------------------------------------------
\* The totals of the two PRS weight vectors
\* ------------------------------------------------------------------------
weight_total(w) == RSumOver(DOMAIN w, w)

\* The five base signals and dV30 of the row are all at their maximum.
AllAtOne == \A k \in {"V30", "V3m", "dV30", "S", "A", "MVI"} : sig[k] = RInt(1)

\* C19 as stated: the with-forecast and the without-forecast weight vectors
\* that scored the rows sum to different totals.
C19_WeightTotalsDiffer ==
    s_pc = "done" => weight_total(w_prs_cast) # weight_total(w_prs_nocast)

\* C19: the with-forecast and the without-forecast weight vectors both sum
\* to 1, so a row with every signal at 1 has PRS 1 in the with-forecast
\* branch, and a row with every signal but the forecast at 1 and no forecast
\* has PRS 1 in the other.
C19_WeightTotalsBothOne ==
    s_pc = "done" =>
        /\ weight_total(w_prs_cast) = RInt(1)
        /\ weight_total(w_prs_nocast) = RInt(1)
        /\ (AllAtOne /\ sig.CAST = RInt(1)) => prs_row = RInt(1)
        /\ (AllAtOne /\ sig.CAST = RInt(0)) => prs_row = RInt(1)

\* A row without forecast and with every other signal at 1, scored 1.
C19_Witness ==
    /\ s_pc = "done"
    /\ AllAtOne
    /\ sig.CAST = RInt(0)
    /\ prs_row = RInt(1)

\* C20: the forecast table is defined when the final join starts; no run
\* skips the forecast fetch (use_cast_cache) without having loaded the
\* cached table.
C20_CastDefinedBeforeJoin ==
    /\ j_pc = "final" => cast_bound
    /\ use_cast_cache => cast_bound

\* ------------------------------------------------------------------------
\* The as-of date of a run and the cutoff of its event tables
\* ------------------------------------------------------------------------
\* C21: in a run that computes its counts, the cutoff that anchors the
\* 30-day window and is stamped on the fact rows (end_allowed) is the
\* cutoff under which every row of the event tables it uses was fetched,
\* also when the tables come from the cache.
C21_AsOfIsFetchCutoff ==
    pc \in {"counts", "spill", "done"} =>
        /\ \A i \in DOMAIN events_out : events_out[i].data_as_of = end_allowed
        /\ \A i \in DOMAIN events_prev_out : events_prev_out[i].data_as_of = end_allowed
====
